---- MODULE Spec2Model ----
(***************************************************************************)
(* Multi-party authorization (05-multisig) and the pluggable signer        *)
(* (06-hsm-integration) of the Solana integration exercises.               *)
(*                                                                         *)
(* The client flow, main of multisig-operations.js, is translated from     *)
(* the source.  The authorization engine that the flow calls through the   *)
(* multisig handle (proposal store, permission checks, quorum) is not part *)
(* of the source tree; its operations are modelled from the specification  *)
(* and are marked so in the model map.  A ledger transaction is applied    *)
(* atomically; everything a client does before the ledger applies it       *)
(* (reading the index, building, signing) is a separate step.              *)
(*                                                                         *)
(* The signer, MockHSMSigner over HSMSigner, and main of the HSM transfer  *)
(* flow are translated from the source.  An async function runs in one     *)
(* piece up to its next await; each await that waits for a timer or the    *)
(* network is a point where other call chains may run.  SignerSpec has     *)
(* call chains use one signer object in any order, HsmSpec has runs of     *)
(* main, each with the signer object it constructs.                        *)
(* InstancesSpec has two signer objects side by side, RegistrySpec the     *)
(* creation of registries, FundingSpec the two demos under every           *)
(* SOLANA_ENV.                                                             *)
(*                                                                         *)
(* The counter program is known through its tests only: CounterSpec sends  *)
(* the instructions of the tests to a program modelled after what the      *)
(* tests expect of it, with the count at its full 64 bits.                 *)
(***************************************************************************)
EXTENDS Integers, FiniteSets, Sequences, TLC

(* ------------------------------------------------------------------ *)
(* Bounds of the model                                                *)
(* ------------------------------------------------------------------ *)

\* Proposals the store may hold; indices are 0 .. MaxProposals - 1.
MaxProposals == 2

\* Operations the other callers may start during one run of main.
MaxOps == 2

\* Signer calls the call chains may start on the shared signer object; a
\* signAllTransactions of k transactions counts as its k signTransaction.
MaxCalls == 4

\* Transactions in one call of signAllTransactions.
MaxBatch == 2

\* Instructions the counter client sends.
MaxTx == 4

(* ------------------------------------------------------------------ *)
(* Identities, permissions, registry: main, section 2                 *)
(* ------------------------------------------------------------------ *)

\* The four keypairs main generates.
Identities == {"creator", "member1", "member2", "member3"}

\* Permission bits of a member's mask (7 = Propose, Approve, Execute;
\* 3 = Propose and Approve only).
Propose == 1
Approve == 2
Execute == 4

\* The member list handed to multisig.create: member3 is generated but
\* not registered.
members ==
    [m \in {"creator", "member1", "member2"} |->
        IF m = "member2" THEN 3 ELSE 7]

\* A multisig created 1-of-3 instead of 2-of-3.
ThresholdOne == 2 - 1

\* threshold: 2 of the multisig.create call.
threshold == 2

\* An execute built for member2, whose mask 3 lacks Execute.
ExecutorWithoutExecute == "member2"

\* The identities main acts with.
ProposalCreator == "creator"
Approver == "member1"
Executor == "creator"

NoRegistry == [exists |-> FALSE]
NoProposal == [status |-> "None"]
NoIndex == -1

\* Concurrent callers of the engine besides main.
Callers == {"c1", "c2"}
Clients == {"main"} \cup Callers

Indices == 0 .. (MaxProposals - 1)

(* ------------------------------------------------------------------ *)
(* Signer instances, their callers and the runs of the HSM flow       *)
(* ------------------------------------------------------------------ *)

\* JavaScript null and undefined.
Null == [null |-> TRUE]
Undefined == [undefined |-> TRUE]

\* Bytes of the seed buffer: Buffer.alloc(32).
SeedLen == 32

\* 'test-seed', the default seed phrase of the constructor, as bytes.
TestSeed == << 116, 101, 115, 116, 45, 115, 101, 101, 100 >>

\* 'my-secure-seed', the seed phrase of the HSM flow, as bytes.
MySecureSeed ==
    << 109, 121, 45, 115, 101, 99, 117, 114, 101, 45, 115, 101, 101, 100 >>

Phrases == {TestSeed, MySecureSeed}

\* MockHSMSigner objects; one that was not constructed yet is NoSigner.
Signers == {"s1", "s2"}
NoSigner == [constructed |-> FALSE]

\* The signer object the call chains share.
SharedSigners == {"s1"}

\* Transaction objects handed to a signer.
TxIds == {"a", "b"}

\* Asynchronous call chains that use a signer directly.
Threads == {"t1", "t2"}
IdleThread == [pc |-> "idle"]
NoResult == [op |-> "none"]

\* Invocations of main of the HSM flow; each constructs its own signer.
Runs == {"r1", "r2"}
Environments == {"localnet", "devnet", "mainnet-beta"}

\* A run of main that has not started; transaction: the Transaction object.
NoTransaction == [built |-> FALSE]
NewRun ==
    [pc |-> "start", environment |-> "localnet", transaction |-> NoTransaction,
     error |-> "none", submitted |-> FALSE, sent |-> FALSE,
     promise |-> "pending"]

\* The key pairs of the counter tests; a counter's address is derived from
\* the seed "counter" and the key of the authority that initializes it.
Keys == {"authority", "newAuthority", "wrongAuthority"}
NoCounter == [initialized |-> FALSE]
NoHistory == [initialized |-> FALSE]

\* PublicKey.findProgramAddressSync([Buffer.from("counter"), key.toBuffer()],
\* program.programId): the address is a function of the seeds.
findProgramAddressSync(seeds) == [seeds |-> seeds]
CounterPda(key) == findProgramAddressSync(<< "counter", key >>)
Addresses == {CounterPda(k) : k \in Keys}

VARIABLES
    registry,      \* the multisig account: members, threshold, or NoRegistry
    txIndex,       \* multisigAccount.transactionIndex
    proposals,     \* proposal store: index -> proposal record or NoProposal
    mpc,           \* main: position in the flow
    mIndex,        \* main: const transactionIndex
    mObserved,     \* main: proposal.status / approved.length it printed
    mErr,          \* main: the error main's promise rejected with
    acts,          \* main: the ledger actions it submitted, with their signer
    cpc,           \* caller: position
    cid,           \* caller: identity it acts with
    cidx,          \* caller: proposal index it holds
    sawApproved,   \* client: the proposal was Approved when its execute began
    res,           \* caller: outcome of its last completed operation
    createdSeq,    \* the proposals created, in creation order: index, client
    ops,           \* operations the other callers have started
    signers,       \* signer object: seedPhrase, keypair, _publicKey
    txSigs,        \* transaction object: public keys whose signature it has
    threads,       \* call chain: the signer call it is suspended in
    tres,          \* call chain: how its last completed signer call ended
    calls,         \* signer calls started, a batch counted by its length
    runs,          \* HSM flow: position, transaction and outcome of a run
    created,       \* registry creation: the last create call and its outcome
    counters,      \* counter program: counter address -> account or NoCounter
    cres,          \* counter client: the last instruction sent and its outcome
    hist,          \* counter address: value initialized with, increments done
    txs,           \* counter client: instructions sent
    menv,          \* process.env.SOLANA_ENV || 'localnet' of the multisig demo
    airdrops       \* requestAirdrop of a flow: none, confirmed or failed

vars ==
    << registry, txIndex, proposals, mpc, mIndex, mObserved, mErr, acts,
       cpc, cid, cidx, sawApproved, res, createdSeq, ops,
       signers, txSigs, threads, tres, calls, runs,
       created, counters, cres, hist, txs, menv, airdrops >>

ledgerVars == << registry, txIndex, proposals >>
mainVars == << mpc, mIndex, mObserved, mErr, acts >>
callerVars == << cpc, cid, cidx, res, ops >>
multisigVars ==
    << ledgerVars, mainVars, callerVars, sawApproved, createdSeq >>
threadVars == << threads, tres, calls >>
hsmVars == << signers, txSigs, threadVars, runs >>
createVars == << created >>
counterVars == << counters, cres, hist, txs >>
fundVars == << menv, airdrops >>

(* ------------------------------------------------------------------ *)
(* MemberRegistry                                                     *)
(* ------------------------------------------------------------------ *)

\* has_permission: pure lookup, an unknown identity has no permission.
HasPermission(reg, id, bit) ==
    /\ reg.exists
    /\ id \in DOMAIN reg.members
    /\ (reg.members[id] \div bit) % 2 = 1

\* create(members, threshold)
RegistryCreate(ms, th) ==
    [exists |-> TRUE, members |-> ms, threshold |-> th]

(* ------------------------------------------------------------------ *)
(* AuthorizationEngine: each operation maps the store to an outcome   *)
(* and the store after it                                             *)
(* ------------------------------------------------------------------ *)

ApproveCount(p) == Cardinality(p.approved)

Exists(props, idx) == idx \in Indices /\ props[idx] # NoProposal

Outcome(r, props, next) == [res |-> r, props |-> props, next |-> next]

\* A store that takes whatever index the client passes, taken or not.
create_proposal_AnyIndex(props, next, reg, idx, creator) ==
    IF ~HasPermission(reg, creator, Propose)
    THEN Outcome("Unauthorized", props, next)
    ELSE Outcome("ok",
                 [props EXCEPT ![idx] =
                     [status |-> "Active", creator |-> creator,
                      approved |-> {}, rejected |-> {}]],
                 IF idx = next THEN next + 1 ELSE next)

\* create_proposal: the creator holds Propose; the proposal takes the next
\* index of the store, which the client passes as transactionIndex.
create_proposal(props, next, reg, idx, creator) ==
    IF ~HasPermission(reg, creator, Propose)
    THEN Outcome("Unauthorized", props, next)
    ELSE IF idx # next
    THEN Outcome("InvalidIndex", props, next)
    ELSE Outcome("ok",
                 [props EXCEPT ![idx] =
                     [status |-> "Active", creator |-> creator,
                      approved |-> {}, rejected |-> {}]],
                 next + 1)

\* The store after the upsert of the member's vote and the recount.
Tally(props, reg, idx, member, decision) ==
    LET p == props[idx]
        app == IF decision = "Approve"
               THEN p.approved \cup {member}
               ELSE p.approved \ {member}
        rej == IF decision = "Reject"
               THEN p.rejected \cup {member}
               ELSE p.rejected \ {member}
        st == IF Cardinality(app) >= reg.threshold
              THEN "Approved" ELSE "Active"
    IN [props EXCEPT ![idx] =
           [p EXCEPT !.approved = app, !.rejected = rej, !.status = st]]

\* A cast_vote that does not look at the proposal's state.
cast_vote_AnyState(props, next, reg, idx, member, decision) ==
    IF ~HasPermission(reg, member, Approve)
    THEN Outcome("Unauthorized", props, next)
    ELSE IF ~Exists(props, idx)
    THEN Outcome("UnknownProposal", props, next)
    ELSE Outcome("ok", Tally(props, reg, idx, member, decision), next)

\* A cast_vote that does not look at the voter's permission.
cast_vote_AnyVoter(props, next, reg, idx, member, decision) ==
    IF ~Exists(props, idx)
    THEN Outcome("UnknownProposal", props, next)
    ELSE IF props[idx].status # "Active"
    THEN Outcome("InvalidState", props, next)
    ELSE Outcome("ok", Tally(props, reg, idx, member, decision), next)

\* cast_vote: upsert of the member's vote, then the tally.
cast_vote(props, next, reg, idx, member, decision) ==
    IF ~HasPermission(reg, member, Approve)
    THEN Outcome("Unauthorized", props, next)
    ELSE IF ~Exists(props, idx)
    THEN Outcome("UnknownProposal", props, next)
    ELSE IF props[idx].status # "Active"
    THEN Outcome("InvalidState", props, next)
    ELSE Outcome("ok", Tally(props, reg, idx, member, decision), next)

\* cancel_proposal: creator only, from Active or Approved.
cancel_proposal(props, next, reg, idx, member) ==
    IF ~Exists(props, idx)
    THEN Outcome("UnknownProposal", props, next)
    ELSE IF props[idx].status \notin {"Active", "Approved"}
    THEN Outcome("InvalidState", props, next)
    ELSE IF member # props[idx].creator
    THEN Outcome("Unauthorized", props, next)
    ELSE Outcome("ok", [props EXCEPT ![idx].status = "Cancelled"], next)

\* execute_proposal, the part the ledger applies when the signed execute
\* transaction is confirmed (timeLock is 0, so the time lock has elapsed).
execute_proposal(props, next, reg, idx, executor) ==
    IF ~Exists(props, idx) \/ props[idx].status # "Approved"
    THEN Outcome("InvalidState", props, next)
    ELSE IF ~HasPermission(reg, executor, Execute)
    THEN Outcome("Unauthorized", props, next)
    ELSE Outcome("ok", [props EXCEPT ![idx].status = "Executed"], next)

(* ------------------------------------------------------------------ *)
(* Initial state: nothing exists on the ledger, main has not started  *)
(* ------------------------------------------------------------------ *)

Init ==
    /\ registry = NoRegistry
    /\ txIndex = 0
    /\ proposals = [i \in Indices |-> NoProposal]
    /\ mpc = "start"
    /\ mIndex = NoIndex
    /\ mObserved = [status |-> "None", approvals |-> 0]
    /\ mErr = "none"
    /\ acts = {}
    /\ cpc = [c \in Callers |-> "idle"]
    /\ cid = [c \in Callers |-> "creator"]
    /\ cidx = [c \in Callers |-> NoIndex]
    /\ sawApproved = [c \in Clients |-> FALSE]
    /\ res = [c \in Callers |-> [op |-> "none", r |-> "none"]]
    /\ createdSeq = << >>
    /\ ops = 0
    /\ signers = [s \in Signers |-> NoSigner]
    /\ txSigs = [x \in TxIds |-> {}]
    /\ threads = [c \in Threads |-> IdleThread]
    /\ tres = [c \in Threads |-> NoResult]
    /\ calls = 0
    /\ runs = [r \in Runs |-> NewRun]
    /\ created = NoResult
    /\ counters = [a \in Addresses |-> NoCounter]
    /\ cres = NoResult
    /\ hist = [a \in Addresses |-> NoHistory]
    /\ txs = 0
    /\ menv = "localnet"
    /\ airdrops = [f \in {"main"} \cup Runs |-> "none"]

\* The store has room for the proposal a create with this index would add.
Room(idx) == idx = txIndex => Len(createdSeq) < MaxProposals

IsApproved(idx) == Exists(proposals, idx) /\ proposals[idx].status = "Approved"

\* A send reported as failed although the ledger applied the transaction.
SentButReportedFailed(landed, out) ==
    IF landed THEN out ELSE [out EXCEPT !.res = "SubmissionFailed"]

\* sendAndConfirmTransaction: the signed transaction reaches the ledger,
\* which applies it, or the send fails and the ledger is left as it was.
Sent(landed, out) ==
    IF landed THEN out ELSE Outcome("SubmissionFailed", proposals, txIndex)

Created(out, idx, client) ==
    IF out.res = "ok"
    THEN Append(createdSeq, [index |-> idx, by |-> client])
    ELSE createdSeq

(* ------------------------------------------------------------------ *)
(* main of multisig-operations.js                                     *)
(* ------------------------------------------------------------------ *)

\* Airdrop to the creator; a failed airdrop is caught and main returns.
MainAirdrop ==
    /\ mpc = "start"
    /\ IF menv \notin Environments
       THEN /\ mpc' = "done"
            /\ mErr' = "UnknownEnvironment"
            /\ UNCHANGED airdrops
       ELSE IF menv \in {"localnet", "devnet"}
       THEN /\ \E ok \in BOOLEAN :
                  /\ mpc' = IF ok THEN "createMultisig" ELSE "done"
                  /\ airdrops' = [airdrops EXCEPT !["main"] =
                                      IF ok THEN "confirmed" ELSE "failed"]
            /\ UNCHANGED mErr
       ELSE /\ mpc' = "createMultisig"
            /\ UNCHANGED << mErr, airdrops >>
    /\ UNCHANGED << ledgerVars, mIndex, mObserved, acts, callerVars,
                    sawApproved, createdSeq >>
    /\ UNCHANGED << hsmVars, createVars, counterVars, menv >>

\* multisig.create({members, threshold: 2, timeLock: 0, ...})
MainCreateMultisig ==
    /\ mpc = "createMultisig"
    /\ registry' = RegistryCreate(members, threshold)
    /\ txIndex' = 0
    /\ mpc' = "readIndex"
    /\ UNCHANGED << proposals, mIndex, mObserved, mErr, acts, callerVars,
                    sawApproved, createdSeq >>
    /\ UNCHANGED << hsmVars, createVars, counterVars, fundVars >>

\* transactionIndex = Number(multisigAccount.transactionIndex)
MainReadIndex ==
    /\ mpc = "readIndex"
    /\ mIndex' = txIndex
    /\ mpc' = "createProposal"
    /\ UNCHANGED << ledgerVars, mObserved, mErr, acts, callerVars,
                    sawApproved, createdSeq >>
    /\ UNCHANGED << hsmVars, createVars, counterVars, fundVars >>

\* buildCreateProposalTransaction, sendAndConfirmTransaction [creator]
MainCreateProposal ==
    /\ mpc = "createProposal"
    /\ Room(mIndex)
    /\ \E landed \in BOOLEAN :
       LET out == Sent(landed, create_proposal(proposals, txIndex, registry,
                                               mIndex, ProposalCreator))
       IN /\ proposals' = out.props
          /\ txIndex' = out.next
          /\ createdSeq' = Created(out, mIndex, "main")
          /\ mpc' = IF out.res = "ok" THEN "approve" ELSE "failed"
          /\ mErr' = IF out.res = "ok" THEN mErr ELSE out.res
    /\ acts' = acts \cup {[kind |-> "create", by |-> ProposalCreator]}
    /\ UNCHANGED << registry, mIndex, mObserved, callerVars, sawApproved >>
    /\ UNCHANGED << hsmVars, createVars, counterVars, fundVars >>

\* buildApproveTransaction, sendAndConfirmTransaction [member1]
MainApprove ==
    /\ mpc = "approve"
    /\ \E landed \in BOOLEAN :
       LET out == Sent(landed, cast_vote(proposals, txIndex, registry,
                                         mIndex, Approver, "Approve"))
       IN /\ proposals' = out.props
          /\ mpc' = IF out.res = "ok" THEN "getProposal" ELSE "failed"
          /\ mErr' = IF out.res = "ok" THEN mErr ELSE out.res
    /\ acts' = acts \cup {[kind |-> "approve", by |-> Approver]}
    /\ UNCHANGED << registry, txIndex, mIndex, mObserved, callerVars,
                    sawApproved, createdSeq >>
    /\ UNCHANGED << hsmVars, createVars, counterVars, fundVars >>

\* getProposal; proposal.status and proposal.approved.length are printed.
MainGetProposal ==
    /\ mpc = "getProposal"
    /\ mObserved' = [status |-> proposals[mIndex].status,
                     approvals |-> ApproveCount(proposals[mIndex])]
    /\ mpc' = "execute"
    /\ UNCHANGED << ledgerVars, mIndex, mErr, acts, callerVars, sawApproved,
                    createdSeq >>
    /\ UNCHANGED << hsmVars, createVars, counterVars, fundVars >>

\* buildExecuteTransaction and the signing sendAndConfirmTransaction does
\* with [creator] before it sends: nothing here looks at proposal.status.
MainExecuteSign ==
    /\ mpc = "execute"
    /\ sawApproved' = [sawApproved EXCEPT !["main"] = IsApproved(mIndex)]
    /\ mpc' = "execSigned"
    /\ UNCHANGED << ledgerVars, mIndex, mObserved, mErr, acts, callerVars,
                    createdSeq >>
    /\ UNCHANGED << hsmVars, createVars, counterVars, fundVars >>

\* The send-and-confirm of the signed execute transaction: it reaches the
\* ledger, which applies execute_proposal, or it does not; a rejection
\* or a send failure is thrown out of main.
MainExecuteSubmit ==
    /\ mpc = "execSigned"
    /\ \E landed \in BOOLEAN :
          LET out == Sent(landed, execute_proposal(proposals, txIndex,
                                        registry, mIndex, Executor))
          IN /\ proposals' = out.props
             /\ mpc' = IF out.res = "ok" THEN "verify" ELSE "failed"
             /\ mErr' = IF out.res = "ok" THEN mErr ELSE out.res
    /\ acts' = acts \cup {[kind |-> "execute", by |-> Executor]}
    /\ sawApproved' = [sawApproved EXCEPT !["main"] = FALSE]
    /\ UNCHANGED << registry, txIndex, mIndex, mObserved, callerVars,
                    createdSeq >>
    /\ UNCHANGED << hsmVars, createVars, counterVars, fundVars >>

\* getTokenAccountBalance of the recipient, then main returns.
MainVerify ==
    /\ mpc = "verify"
    /\ mpc' = "done"
    /\ UNCHANGED << ledgerVars, mIndex, mObserved, mErr, acts, callerVars,
                    sawApproved, createdSeq >>
    /\ UNCHANGED << hsmVars, createVars, counterVars, fundVars >>

(* ------------------------------------------------------------------ *)
(* Other callers of the engine: the same client steps as main's, by    *)
(* any identity on any proposal, run concurrently with main           *)
(* ------------------------------------------------------------------ *)

Idle(c) == cpc[c] = "idle" /\ registry.exists /\ ops < MaxOps

Finish(c, op, r) ==
    /\ cpc' = [cpc EXCEPT ![c] = "idle"]
    /\ cidx' = [cidx EXCEPT ![c] = NoIndex]
    /\ cid' = [cid EXCEPT ![c] = "creator"]
    /\ res' = [res EXCEPT ![c] = [op |-> op, r |-> r]]
    /\ sawApproved' = [sawApproved EXCEPT ![c] = FALSE]

\* cast_vote(proposal_index, member, decision), one ledger transaction.
CallerVote(c) ==
    /\ Idle(c)
    /\ \E idx \in Indices, m \in Identities,
          d \in {"Approve", "Reject"}, landed \in BOOLEAN :
          LET out == Sent(landed, cast_vote(proposals, txIndex, registry,
                                            idx, m, d))
          IN /\ proposals' = out.props
             /\ Finish(c, "vote", out.res)
    /\ UNCHANGED << registry, txIndex, mainVars, createdSeq >>
    /\ ops' = ops + 1
    /\ UNCHANGED << hsmVars, createVars, counterVars, fundVars >>

\* cancel_proposal(proposal_index, member), one ledger transaction.
CallerCancel(c) ==
    /\ Idle(c)
    /\ \E idx \in Indices, m \in Identities, landed \in BOOLEAN :
          LET out == Sent(landed, cancel_proposal(proposals, txIndex,
                                                  registry, idx, m))
          IN /\ proposals' = out.props
             /\ Finish(c, "cancel", out.res)
    /\ UNCHANGED << registry, txIndex, mainVars, createdSeq >>
    /\ ops' = ops + 1
    /\ UNCHANGED << hsmVars, createVars, counterVars, fundVars >>

\* Creating a proposal, first step: read the current transaction index.
CallerReadIndex(c) ==
    /\ Idle(c)
    /\ \E m \in Identities :
          cid' = [cid EXCEPT ![c] = m]
    /\ cidx' = [cidx EXCEPT ![c] = txIndex]
    /\ cpc' = [cpc EXCEPT ![c] = "creating"]
    /\ UNCHANGED << ledgerVars, mainVars, sawApproved, res, createdSeq >>
    /\ ops' = ops + 1
    /\ UNCHANGED << hsmVars, createVars, counterVars, fundVars >>

\* Creating a proposal, second step: the create transaction with that index.
CallerCreateProposal(c) ==
    /\ cpc[c] = "creating"
    /\ Room(cidx[c])
    /\ \E landed \in BOOLEAN :
          LET out == Sent(landed, create_proposal(proposals, txIndex,
                                        registry, cidx[c], cid[c]))
          IN /\ proposals' = out.props
             /\ txIndex' = out.next
             /\ createdSeq' = Created(out, cidx[c], c)
             /\ Finish(c, "create", out.res)
    /\ UNCHANGED << registry, mainVars >>
    /\ ops' = ops
    /\ UNCHANGED << hsmVars, createVars, counterVars, fundVars >>

\* Executing with a signer backend, first step: connect() of the signer.
\* A failed connect ends the attempt before anything is signed.
CallerExecConnect(c) ==
    /\ Idle(c)
    /\ \E idx \in Indices, m \in Identities, ok \in BOOLEAN :
          IF ok
          THEN /\ cpc' = [cpc EXCEPT ![c] = "connected"]
               /\ cid' = [cid EXCEPT ![c] = m]
               /\ cidx' = [cidx EXCEPT ![c] = idx]
               /\ sawApproved' = [sawApproved EXCEPT ![c] = IsApproved(idx)]
               /\ res' = res
          ELSE Finish(c, "execute", "SigningFailed")
    /\ UNCHANGED << ledgerVars, mainVars, createdSeq >>
    /\ ops' = ops + 1
    /\ UNCHANGED << hsmVars, createVars, counterVars, fundVars >>

\* signTransaction of the assembled execute transaction; a failure is
\* caught and the signer is disconnected in the finally block.
CallerExecSign(c) ==
    /\ cpc[c] = "connected"
    /\ \E ok \in BOOLEAN :
          IF ok
          THEN /\ cpc' = [cpc EXCEPT ![c] = "signed"]
               /\ UNCHANGED << cid, cidx, res, sawApproved >>
          ELSE Finish(c, "execute", "SigningFailed")
    /\ UNCHANGED << ledgerVars, mainVars, createdSeq >>
    /\ ops' = ops
    /\ UNCHANGED << hsmVars, createVars, counterVars, fundVars >>

\* Send and confirm of the signed execute transaction, then disconnect.
CallerExecSubmit(c) ==
    /\ cpc[c] = "signed"
    /\ \E landed \in BOOLEAN :
          LET out == Sent(landed, execute_proposal(proposals, txIndex,
                                        registry, cidx[c], cid[c]))
          IN /\ proposals' = out.props
             /\ Finish(c, "execute", out.res)
    /\ UNCHANGED << registry, txIndex, mainVars, createdSeq >>
    /\ ops' = ops
    /\ UNCHANGED << hsmVars, createVars, counterVars, fundVars >>

Next ==
    \/ MainAirdrop
    \/ MainCreateMultisig
    \/ MainReadIndex
    \/ MainCreateProposal
    \/ MainApprove
    \/ MainGetProposal
    \/ MainExecuteSign
    \/ MainExecuteSubmit
    \/ MainVerify
    \/ \E c \in Callers : CallerVote(c)
    \/ \E c \in Callers : CallerCancel(c)
    \/ \E c \in Callers : CallerReadIndex(c)
    \/ \E c \in Callers : CallerCreateProposal(c)
    \/ \E c \in Callers : CallerExecConnect(c)
    \/ \E c \in Callers : CallerExecSign(c)
    \/ \E c \in Callers : CallerExecSubmit(c)

Spec == Init /\ [][Next]_vars

(* ------------------------------------------------------------------ *)
(* Vocabulary of the properties                                       *)
(* ------------------------------------------------------------------ *)

\* The client has had its execute transaction signed and not yet sent it.
Signed(c) == IF c = "main" THEN mpc = "execSigned" ELSE cpc[c] = "signed"

\* The proposal index the client acts on.
Target(c) == IF c = "main" THEN mIndex ELSE cidx[c]

\* The outcome the client's last ledger call left.
Result(c) == IF c = "main" THEN mErr ELSE res[c].r

Status(idx) == proposals[idx].status

MainExecuted == [kind |-> "execute", by |-> Executor] \in acts

(* ------------------------------------------------------------------ *)
(* C1: in main the execute transaction is built and submitted only    *)
(* after at least threshold distinct registered members have approved *)
(* the proposal.                                                      *)
(* ------------------------------------------------------------------ *)
C1_ExecuteOnlyAfterQuorum ==
    (mpc = "execSigned" \/ MainExecuted) =>
        /\ proposals[mIndex].approved \subseteq DOMAIN registry.members
        /\ ApproveCount(proposals[mIndex]) >= registry.threshold

(* ------------------------------------------------------------------ *)
(* C2: an execute call on a proposal that is not Approved fails with  *)
(* InvalidState (when the ledger gets to answer it), never invokes the *)
(* signer, and leaves the proposal store as it was.                   *)
(* ------------------------------------------------------------------ *)
C2_Step ==
    \A c \in Clients :
        /\ (~Signed(c) /\ Signed(c)') => IsApproved(Target(c)')
        /\ (Signed(c) /\ ~Signed(c)' /\ ~IsApproved(Target(c))) =>
              /\ proposals' = proposals
              /\ Result(c)' \in {"InvalidState", "SubmissionFailed"}

C2_ExecuteNonApprovedFails == [][C2_Step]_vars

(* ------------------------------------------------------------------ *)
(* C3: quorum rule. A proposal open for voting is Active exactly while *)
(* its Approve count is below the threshold and Approved (later       *)
(* Executed) only with the count at or above it; with the registry of *)
(* main, 3 members and threshold 2, one approval leaves the proposal  *)
(* Active and two approvals by different members make it Approved.    *)
(* ------------------------------------------------------------------ *)
C3_ApprovedIffQuorum ==
    /\ \A idx \in Indices :
          Exists(proposals, idx) =>
             LET p == proposals[idx]
                 n == ApproveCount(p)
             IN /\ p.status = "Active" => n < registry.threshold
                /\ p.status \in {"Approved", "Executed"} =>
                      n >= registry.threshold
                /\ n = 1 => p.status \in {"Active", "Cancelled"}
                /\ n = 2 => p.status # "Active"
    /\ registry.exists =>
          Cardinality(DOMAIN registry.members) = 3
    /\ mObserved.approvals = 1 => mObserved.status \in {"Active", "Cancelled"}
    /\ mObserved.status = "Active" => mObserved.approvals < 2
    /\ mObserved.status = "Approved" => mObserved.approvals = 2

\* Main printed Active with one approval, and a second member's approval
\* has since made the proposal Approved.
C3_Witness ==
    /\ mObserved = [status |-> "Active", approvals |-> 1]
    /\ IsApproved(mIndex)
    /\ ApproveCount(proposals[mIndex]) = 2

(* ------------------------------------------------------------------ *)
(* C4: two concurrent execute calls on the same Approved proposal     *)
(* give exactly one transition to Executed and exactly one signer     *)
(* invocation: a proposal becomes Executed only from Approved and     *)
(* stays Executed, and of two calls that both found the proposal      *)
(* Approved only one gets to the signer.                              *)
(* ------------------------------------------------------------------ *)
C4_Step ==
    /\ \A idx \in Indices :
          /\ (Status(idx)' = "Executed" /\ Status(idx) # "Executed") =>
                Status(idx) = "Approved"
          /\ Status(idx) = "Executed" => Status(idx)' = "Executed"
    /\ \A c \in Clients :
          (~Signed(c) /\ Signed(c)' /\ sawApproved'[c]) =>
             ~ \E d \in Clients \ {c} :
                  /\ Signed(d)
                  /\ sawApproved[d]
                  /\ Target(d) = Target(c)'

C4_ExactlyOneExecution == [][C4_Step]_vars

(* ------------------------------------------------------------------ *)
(* C5: a proposal becomes Executed only in the step in which the      *)
(* ledger confirms a signed execute transaction; an execute attempt   *)
(* that ends in a connect, signing or submission failure leaves the   *)
(* store as it was, and an Approved proposal can be executed by any    *)
(* member holding Execute with no further vote.                       *)
(* ------------------------------------------------------------------ *)
ExecuteFailures == {"SigningFailed", "SubmissionFailed"}

C5_Retryable ==
    \A idx \in Indices :
        IsApproved(idx) =>
            \A m \in DOMAIN registry.members :
                HasPermission(registry, m, Execute) =>
                    LET out == execute_proposal(proposals, txIndex, registry,
                                                idx, m)
                    IN /\ out.res = "ok"
                       /\ out.props[idx].status = "Executed"

C5_Step ==
    /\ \A idx \in Indices :
          (Status(idx)' = "Executed" /\ Status(idx) # "Executed") =>
             \E c \in Clients :
                /\ Signed(c) /\ ~Signed(c)'
                /\ Target(c) = idx
                /\ Result(c)' \notin ExecuteFailures
    /\ \A c \in Callers :
          (res'[c] # res[c] /\ res'[c].op = "execute"
              /\ res'[c].r \in ExecuteFailures) => proposals' = proposals
    /\ (Signed("main") /\ mErr' \in ExecuteFailures) => proposals' = proposals
    /\ C5_Retryable /\ C5_Retryable'

Terminal(idx) ==
    Exists(proposals, idx) /\ Status(idx) \in {"Executed", "Cancelled"}

C6_Refused ==
    \A idx \in Indices :
        Terminal(idx) =>
            \A m \in Identities :
                /\ \A d \in {"Approve", "Reject"} :
                      LET out == cast_vote(proposals, txIndex, registry,
                                           idx, m, d)
                      IN /\ out.props = proposals
                         /\ out.res = IF HasPermission(registry, m, Approve)
                                      THEN "InvalidState" ELSE "Unauthorized"
                /\ cancel_proposal(proposals, txIndex, registry, idx, m)
                      = Outcome("InvalidState", proposals, txIndex)
                /\ execute_proposal(proposals, txIndex, registry, idx, m)
                      = Outcome("InvalidState", proposals, txIndex)

C6_Step ==
    /\ \A idx \in Indices :
          Terminal(idx) => proposals'[idx] = proposals[idx]
    /\ C6_Refused /\ C6_Refused'

C7_UnauthorizedVoteRefused ==
    /\ \A idx \in Indices, m \in Identities, d \in {"Approve", "Reject"} :
          ~HasPermission(registry, m, Approve) =>
              cast_vote(proposals, txIndex, registry, idx, m, d)
                  = Outcome("Unauthorized", proposals, txIndex)
    /\ \A idx \in Indices :
          Exists(proposals, idx) =>
              \A v \in proposals[idx].approved \cup proposals[idx].rejected :
                  HasPermission(registry, v, Approve)

\* A vote was refused as Unauthorized on an Active proposal: with main's
\* registry the voter is the unregistered member3.
C7_Witness ==
    /\ \E c \in Callers : res[c] = [op |-> "vote", r |-> "Unauthorized"]
    /\ \E idx \in Indices : Exists(proposals, idx) /\ Status(idx) = "Active"

(* ------------------------------------------------------------------ *)
(* C8: every action of main is submitted by a registered member that  *)
(* holds the bit the action needs: Propose to create, Approve to      *)
(* approve, Execute to execute.                                       *)
(* ------------------------------------------------------------------ *)
Needs(kind) ==
    CASE kind = "create" -> Propose
      [] kind = "approve" -> Approve
      [] kind = "execute" -> Execute

C8_FlowActorsPermitted ==
    \A a \in acts :
        /\ a.by \in DOMAIN registry.members
        /\ HasPermission(registry, a.by, Needs(a.kind))

C8_Witness ==
    /\ mpc = "done"
    /\ {a.kind : a \in acts} = {"create", "approve", "execute"}

(* ------------------------------------------------------------------ *)
(* C9: each new proposal gets an index strictly greater than that of  *)
(* every proposal created before it, cancelled ones included, and a   *)
(* created proposal is never removed or replaced by a new one.        *)
(* ------------------------------------------------------------------ *)
C9_IndexStrictlyIncreases ==
    /\ \A i, j \in DOMAIN createdSeq :
          i < j => createdSeq[i].index < createdSeq[j].index
    /\ \A i \in DOMAIN createdSeq :
          /\ createdSeq[i].index = i - 1
          /\ Exists(proposals, createdSeq[i].index)
    /\ txIndex = Len(createdSeq)

\* A second proposal was created after the first one was cancelled.
C9_Witness ==
    /\ Len(createdSeq) = 2
    /\ Status(createdSeq[1].index) = "Cancelled"
    /\ Status(createdSeq[2].index) = "Active"

(* ------------------------------------------------------------------ *)
(* C10: two creators that read the current index and then create      *)
(* concurrently never create two proposals with the same index: the   *)
(* create of the one still holding an index already taken is refused. *)
(* ------------------------------------------------------------------ *)
Creating(c) ==
    IF c = "main" THEN mpc = "createProposal" ELSE cpc[c] = "creating"

Actor(c) == IF c = "main" THEN ProposalCreator ELSE cid[c]

Taken(idx) == \E i \in DOMAIN createdSeq : createdSeq[i].index = idx

C10_NoDuplicateIndex ==
    /\ \A i, j \in DOMAIN createdSeq :
          i # j => createdSeq[i].index # createdSeq[j].index
    /\ \A c \in Clients :
          (Creating(c) /\ Taken(Target(c))) =>
              create_proposal(proposals, txIndex, registry, Target(c),
                              Actor(c)).res # "ok"

\* Two creators read the same index; one has created the proposal with it
\* and the other, still holding it, is about to send its create.
C10_Witness ==
    \E c, d \in Clients :
        /\ c # d
        /\ Creating(c)
        /\ HasPermission(registry, Actor(c), Propose)
        /\ \E i \in DOMAIN createdSeq :
              createdSeq[i] = [index |-> Target(c), by |-> d]

(* ================================================================== *)
(* The pluggable signer: hsm-signer-interface.js, mock-hsm-signer.js  *)
(* ================================================================== *)

\* Buffer.alloc(32) then seed.write(seedPhrase): the bytes of the phrase
\* that fit, the rest of the buffer zero.
SeedOf(seedPhrase) ==
    [i \in 1 .. SeedLen |->
        IF i <= Len(seedPhrase) THEN seedPhrase[i] ELSE 0]

\* Keypair.fromSeed: the key pair is a function of the 32 seed bytes.
fromSeed(seed) == [secretKey |-> seed, publicKey |-> [of |-> seed]]

\* new MockHSMSigner(seedPhrase); field publicKey is this._publicKey.
MockHSMSigner(seedPhrase) ==
    [seedPhrase |-> seedPhrase, keypair |-> Null, publicKey |-> Null]

\* A connect that publishes the identity of another seed than it signs with.
connect_OtherIdentity(sg) ==
    [sg EXCEPT !.keypair = fromSeed(SeedOf(sg.seedPhrase)),
               !.publicKey = fromSeed(SeedOf(<< >>)).publicKey]

\* MockHSMSigner.connect: the signer after the call.
connect(sg) ==
    [sg EXCEPT !.keypair = fromSeed(SeedOf(sg.seedPhrase)),
               !.publicKey = fromSeed(SeedOf(sg.seedPhrase)).publicKey]

\* A disconnect that forgets the public key and leaves the key pair.
disconnect_KeepsKey(sg) == [sg EXCEPT !.publicKey = Null]

\* A disconnect that also wipes the seed phrase of the signer.
disconnect_WipesSeed(sg) ==
    [sg EXCEPT !.seedPhrase = << >>, !.keypair = Null, !.publicKey = Null]

\* A disconnect that opens the session again when there is none to close.
disconnect_Toggles(sg) ==
    IF sg.keypair = Null
    THEN connect(sg)
    ELSE [sg EXCEPT !.keypair = Null, !.publicKey = Null]

\* MockHSMSigner.disconnect: the signer after the call.
disconnect(sg) == [sg EXCEPT !.keypair = Null, !.publicKey = Null]

\* A signTransaction that does not look at the key pair on entry.
HasKeypair_Unchecked(sg) == TRUE

\* The test on entry of MockHSMSigner.signTransaction: this.keypair is set.
HasKeypair(sg) == sg.keypair # Null

\* The getter publicKey of HSMSigner.
publicKey(sg) ==
    IF sg.publicKey = Null
    THEN [status |-> "threw",
          error |-> "HSM not initialized. Call connect() first."]
    ELSE [status |-> "returned", value |-> sg.publicKey]

\* transaction.partialSign(keypair): the signatures of the transaction after.
partialSign(sigs, keypair) == sigs \cup {keypair.publicKey}

\* Lifecycle state of a signer object.
Connected(s) == signers[s] # NoSigner /\ signers[s].keypair # Null
Disconnected(s) == signers[s] # NoSigner /\ signers[s].keypair = Null

(* ------------------------------------------------------------------ *)
(* Calls on a signer object, from asynchronous call chains            *)
(* ------------------------------------------------------------------ *)

\* Lists of transactions a call of signAllTransactions may be given.
Batches == UNION {[1 .. n -> TxIds] : n \in 0 .. MaxBatch}

\* new Error(message): what a rejected call hands to its caller.
Error(message) == [message |-> message]

\* The call ended: the promise of op settled, the chain goes on.
\* A call as a chain holds it: n numbers the calls in the order they
\* were started, passed lists what was handed to signTransaction so far,
\* signed is the array signed of signAllTransactions.
Call(n, op, s, xs) ==
    [pc |-> "called", n |-> n, op |-> op, s |-> s, input |-> xs,
     passed |-> << >>, signed |-> << >>]

\* The call ended: its promise settled, the chain goes on.
Returned(c, th, value) ==
    /\ threads' = [threads EXCEPT ![c] = IdleThread]
    /\ tres' = [tres EXCEPT ![c] =
                   [n |-> th.n, op |-> th.op, s |-> th.s,
                    status |-> "returned", value |-> value,
                    input |-> th.input, passed |-> th.passed]]

Threw(c, th, message) ==
    /\ threads' = [threads EXCEPT ![c] = IdleThread]
    /\ tres' = [tres EXCEPT ![c] =
                   [n |-> th.n, op |-> th.op, s |-> th.s,
                    status |-> "threw", error |-> Error(message),
                    input |-> th.input, passed |-> th.passed,
                    signed |-> th.signed]]

\* A chain may start a call on a constructed signer.
CanCall(c, s) ==
    /\ threads[c].pc = "idle"
    /\ signers[s] # NoSigner
    /\ calls < MaxCalls

\* new MockHSMSigner(seedPhrase).
New(s) ==
    /\ signers[s] = NoSigner
    /\ \E seedPhrase \in Phrases :
          signers' = [signers EXCEPT ![s] = MockHSMSigner(seedPhrase)]
    /\ UNCHANGED << txSigs, threadVars, runs, multisigVars,
                    createVars, counterVars, fundVars >>

\* await signer.connect(): the body has no await and runs in one piece;
\* it tests nothing and returns nothing.
Connect(c, s) ==
    /\ CanCall(c, s)
    /\ signers' = [signers EXCEPT ![s] = connect(signers[s])]
    /\ Returned(c, Call(calls + 1, "connect", s, << >>), Undefined)
    /\ calls' = calls + 1
    /\ UNCHANGED << txSigs, runs, multisigVars,
                    createVars, counterVars, fundVars >>

\* await signer.disconnect(): runs in one piece, tests nothing.
Disconnect(c, s) ==
    /\ CanCall(c, s)
    /\ signers' = [signers EXCEPT ![s] = disconnect(signers[s])]
    /\ Returned(c, Call(calls + 1, "disconnect", s, << >>), Undefined)
    /\ calls' = calls + 1
    /\ UNCHANGED << txSigs, runs, multisigVars,
                    createVars, counterVars, fundVars >>

\* A loop that takes the transactions from the end of the list.
NextTx_FromEnd(xs, signed) == xs[Len(xs) - Len(signed)]

\* for (const tx of transactions): the transaction of the current round.
NextTx(xs, signed) == xs[Len(signed) + 1]

\* this.signTransaction(tx) up to its await: the test of the key pair,
\* then the chain is suspended in the processing delay.
Enter(c, th) ==
    LET tx == NextTx(th.input, th.signed)
        now == [th EXCEPT !.passed = Append(@, tx)]
    IN  IF HasKeypair(signers[th.s])
        THEN /\ threads' = [threads EXCEPT ![c] = [now EXCEPT !.pc = "delay"]]
             /\ tres' = tres
        ELSE Threw(c, now, "Mock HSM not connected")

\* await signer.signTransaction(x).
SignTransaction(c, s) ==
    /\ CanCall(c, s)
    /\ \E x \in TxIds :
          Enter(c, Call(calls + 1, "signTransaction", s, << x >>))
    /\ calls' = calls + 1
    /\ UNCHANGED << signers, txSigs, runs, multisigVars,
                    createVars, counterVars, fundVars >>

\* await signer.signAllTransactions(xs): signed = [], then the first
\* round of the loop up to its await; an empty list returns at once.
SignAllTransactions(c, s) ==
    /\ CanCall(c, s)
    /\ \E xs \in Batches :
          LET th == Call(calls + 1, "signAllTransactions", s, xs)
          IN  /\ calls + Len(xs) <= MaxCalls
              /\ IF xs = << >>
                 THEN Returned(c, th, << >>)
                 ELSE Enter(c, th)
              /\ calls' = calls + (IF xs = << >> THEN 1 ELSE Len(xs))
    /\ UNCHANGED << signers, txSigs, runs, multisigVars,
                    createVars, counterVars, fundVars >>

\* The delay is over: transaction.partialSign(this.keypair) with the key
\* pair the signer holds now, return transaction.  In signAllTransactions
\* the returned transaction is pushed on signed.
Resume(c) ==
    LET th == threads[c]
        tx == th.passed[Len(th.passed)]
        keypair == signers[th.s].keypair
    IN  /\ th.pc = "delay"
        /\ IF keypair = Null
           THEN /\ Threw(c, th, "TypeError")
                /\ txSigs' = txSigs
           ELSE /\ txSigs' = [txSigs EXCEPT ![tx] = partialSign(@, keypair)]
                /\ IF th.op = "signTransaction"
                   THEN Returned(c, th, tx)
                   ELSE /\ threads' = [threads EXCEPT ![c] =
                               [th EXCEPT !.pc = "loop",
                                          !.signed = Append(@, tx)]]
                        /\ tres' = tres
        /\ UNCHANGED << signers, calls, runs, multisigVars,
                    createVars, counterVars, fundVars >>

\* signAllTransactions after a push: the next round of the loop up to its
\* await, or return signed when the list is exhausted.
Loop(c) ==
    LET th == threads[c]
    IN  /\ th.pc = "loop"
        /\ IF Len(th.signed) = Len(th.input)
           THEN Returned(c, th, th.signed)
           ELSE Enter(c, th)
        /\ UNCHANGED << signers, txSigs, calls, runs, multisigVars,
                    createVars, counterVars, fundVars >>

SignerNext ==
    \/ \E s \in SharedSigners : New(s)
    \/ \E c \in Threads, s \in SharedSigners : Connect(c, s)
    \/ \E c \in Threads, s \in SharedSigners : Disconnect(c, s)
    \/ \E c \in Threads, s \in SharedSigners : SignTransaction(c, s)
    \/ \E c \in Threads, s \in SharedSigners : SignAllTransactions(c, s)
    \/ \E c \in Threads : Resume(c)
    \/ \E c \in Threads : Loop(c)

SignerSpec == Init /\ [][SignerNext]_vars

(* ------------------------------------------------------------------ *)
(* main of the HSM transfer flow                                      *)
(* ------------------------------------------------------------------ *)

\* Two runs that were handed one signer object.
SignerOf_Shared(r) == "s1"

\* const hsmSigner = new MockHSMSigner(...): an object of the run's own.
SignerOf(r) == IF r = "r1" THEN "s1" ELSE "s2"

Step(r, pc) == runs' = [runs EXCEPT ![r].pc = pc]

Fail(r, error) == runs' = [runs EXCEPT ![r].pc = "catch", ![r].error = error]

\* The switch on SOLANA_ENV; the default case throws out of main.
HsmStart(r) ==
    /\ runs[r].pc = "start"
    /\ \E e \in Environments \cup {"testnet"} :
          runs' = [runs EXCEPT
                      ![r].environment = e,
                      ![r].pc = IF e \in Environments
                                THEN "connect" ELSE "done",
                      ![r].promise = IF e \in Environments
                                     THEN "pending" ELSE "rejected"]
    /\ UNCHANGED << signers, txSigs, threadVars, multisigVars,
                    createVars, counterVars, fundVars >>

\* new MockHSMSigner('my-secure-seed'); await hsmSigner.connect(); then
\* the try block is entered.
HsmConnect(r) ==
    /\ runs[r].pc = "connect"
    /\ signers' = [signers EXCEPT
                      ![SignerOf(r)] = connect(MockHSMSigner(MySecureSeed))]
    /\ Step(r, IF runs[r].environment \in {"localnet", "devnet"}
               THEN "airdrop" ELSE "build")
    /\ UNCHANGED << txSigs, threadVars, multisigVars,
                    createVars, counterVars, fundVars >>

\* A return on a failed airdrop that leaves main without the finally block.
HsmAirdrop_SkipsFinally(r) ==
    /\ runs[r].pc = "airdrop"
    /\ \E ok \in BOOLEAN :
          /\ runs' = [runs EXCEPT
                         ![r].pc = IF ok THEN "build" ELSE "done",
                         ![r].error = IF ok THEN "none" ELSE "airdrop",
                         ![r].promise = IF ok THEN "pending" ELSE "resolved"]
          /\ airdrops' = [airdrops EXCEPT ![r] =
                              IF ok THEN "confirmed" ELSE "failed"]
    /\ UNCHANGED << signers, txSigs, threadVars, multisigVars,
                    createVars, counterVars, menv >>

\* requestAirdrop and confirmTransaction; a failure is logged and main
\* returns from inside the try block, through the finally block.
HsmAirdrop(r) ==
    /\ runs[r].pc = "airdrop"
    /\ \E ok \in BOOLEAN :
          /\ runs' = [runs EXCEPT
                         ![r].pc = IF ok THEN "build" ELSE "finally",
                         ![r].error = IF ok THEN "none" ELSE "airdrop"]
          /\ airdrops' = [airdrops EXCEPT ![r] =
                              IF ok THEN "confirmed" ELSE "failed"]
    /\ UNCHANGED << signers, txSigs, threadVars, multisigVars,
                    createVars, counterVars, menv >>

\* new Transaction().add(SystemProgram.transfer({fromPubkey: ...})).
HsmBuild(r) ==
    LET from == publicKey(signers[SignerOf(r)])
    IN  /\ runs[r].pc = "build"
        /\ IF from.status = "threw"
           THEN Fail(r, "build")
           ELSE runs' = [runs EXCEPT
                            ![r].pc = "blockhash",
                            ![r].transaction =
                                [built |-> TRUE, fromPubkey |-> from.value,
                                 recentBlockhash |-> Null,
                                 feePayer |-> Null, signatures |-> {}]]
        /\ UNCHANGED << signers, txSigs, threadVars, multisigVars,
                    createVars, counterVars, fundVars >>

\* await connection.getLatestBlockhash(), then recentBlockhash,
\* lastValidBlockHeight and feePayer of the transaction are set.
HsmBlockhash(r) ==
    LET payer == publicKey(signers[SignerOf(r)])
    IN  /\ runs[r].pc = "blockhash"
        /\ \E ok \in BOOLEAN :
              IF ok /\ payer.status = "returned"
              THEN runs' = [runs EXCEPT
                               ![r].pc = "sign",
                               ![r].transaction.recentBlockhash =
                                   [blockhash |-> TRUE],
                               ![r].transaction.feePayer = payer.value]
              ELSE Fail(r, "blockhash")
        /\ UNCHANGED << signers, txSigs, threadVars, multisigVars,
                    createVars, counterVars, fundVars >>

\* A flow that hands the transaction to the signer while the blockhash is
\* still being fetched.
HsmSign_BeforeBlockhash(r) ==
    /\ runs[r].pc \in {"blockhash", "sign"}
    /\ IF HasKeypair(signers[SignerOf(r)])
       THEN Step(r, "signing")
       ELSE Fail(r, "sign")
    /\ UNCHANGED << signers, txSigs, threadVars, multisigVars,
                    createVars, counterVars, fundVars >>

\* hsmSigner.signTransaction(transaction) up to its await.
HsmSign(r) ==
    /\ runs[r].pc = "sign"
    /\ IF HasKeypair(signers[SignerOf(r)])
       THEN Step(r, "signing")
       ELSE Fail(r, "sign")
    /\ UNCHANGED << signers, txSigs, threadVars, multisigVars,
                    createVars, counterVars, fundVars >>

\* The signing delay is over: partialSign with the key pair the signer
\* holds, or the signing backend rejects; main gets signedTransaction.
HsmSigned(r) ==
    LET keypair == signers[SignerOf(r)].keypair
    IN  /\ runs[r].pc = "signing"
        /\ \E ok \in BOOLEAN :
              IF ok /\ keypair # Null
              THEN runs' = [runs EXCEPT
                               ![r].pc = "send",
                               ![r].transaction.signatures =
                                   partialSign(@, keypair)]
              ELSE Fail(r, "sign")
        /\ UNCHANGED << signers, txSigs, threadVars, multisigVars,
                    createVars, counterVars, fundVars >>

\* sendAndConfirmRawTransaction(connection, signedTransaction.serialize()):
\* the transaction is submitted, and confirmed or the call throws.
HsmSend(r) ==
    /\ runs[r].pc = "send"
    /\ \E ok \in BOOLEAN :
          runs' = [runs EXCEPT
                      ![r].submitted = TRUE,
                      ![r].sent = ok,
                      ![r].pc = IF ok THEN "finally" ELSE "catch",
                      ![r].error = IF ok THEN "none" ELSE "send"]
    /\ UNCHANGED << signers, txSigs, threadVars, multisigVars,
                    createVars, counterVars, fundVars >>

\* catch (error): the error is logged, nothing is thrown again.
HsmCatch(r) ==
    /\ runs[r].pc = "catch"
    /\ Step(r, "finally")
    /\ UNCHANGED << signers, txSigs, threadVars, multisigVars,
                    createVars, counterVars, fundVars >>

\* finally: await hsmSigner.disconnect(); then main's promise resolves.
HsmFinally(r) ==
    /\ runs[r].pc = "finally"
    /\ signers' = [signers EXCEPT
                      ![SignerOf(r)] = disconnect(signers[SignerOf(r)])]
    /\ runs' = [runs EXCEPT ![r].pc = "done", ![r].promise = "resolved"]
    /\ UNCHANGED << txSigs, threadVars, multisigVars,
                    createVars, counterVars, fundVars >>

HsmRun(r) ==
    \/ HsmStart(r)
    \/ HsmConnect(r)
    \/ HsmAirdrop(r)
    \/ HsmBuild(r)
    \/ HsmBlockhash(r)
    \/ HsmSign(r)
    \/ HsmSigned(r)
    \/ HsmSend(r)
    \/ HsmCatch(r)
    \/ HsmFinally(r)

HsmNext == \E r \in Runs : HsmRun(r)

HsmSpec == Init /\ [][HsmNext]_vars

\* Every await of a run settles: a run that can go on does go on.
HsmFairSpec == HsmSpec /\ \A r \in Runs : WF_vars(HsmRun(r))

(* ------------------------------------------------------------------ *)
(* Vocabulary of the signer properties                                *)
(* ------------------------------------------------------------------ *)

\* This step is chain c starting the call op on signer s.
Called(c, op, s) ==
    /\ calls' > calls
    /\ threads[c].pc = "idle"
    /\ \/ /\ threads'[c].pc = "delay"
          /\ threads'[c].n = calls + 1
          /\ threads'[c].op = op
          /\ threads'[c].s = s
       \/ /\ threads'[c].pc = "idle"
          /\ tres'[c].op = op
          /\ tres'[c].n = calls + 1
          /\ tres'[c].s = s

NotConnected == Error("Mock HSM not connected")

\* The last call of chain c was op and it ended in an exception.
Failed(c, op) == tres[c].op = op /\ tres[c].status = "threw"

(* ------------------------------------------------------------------ *)
(* C11: signTransaction called on a signer that is Disconnected, never *)
(* connected or disconnected since, throws the not-connected error,    *)
(* is not suspended, and no transaction gets a signature.              *)
(* ------------------------------------------------------------------ *)
C11_Step ==
    \A c \in Threads, s \in SharedSigners :
        (Called(c, "signTransaction", s) /\ Disconnected(s))
            => /\ threads'[c].pc = "idle"
               /\ tres'[c].status = "threw"
               /\ tres'[c].error = NotConnected
               /\ txSigs' = txSigs

C11_SignRequiresConnected == [][C11_Step]_vars

\* A signTransaction refused after another chain's disconnect.
C11_Witness ==
    \E c, d \in Threads :
        /\ Failed(c, "signTransaction")
        /\ tres[c].error = NotConnected
        /\ tres[d].op = "disconnect"
        /\ tres[d].n < tres[c].n
        /\ \A x \in TxIds : txSigs[x] = {}

(* ------------------------------------------------------------------ *)
(* C12: disconnect is idempotent.  Every disconnect returns without an *)
(* error and leaves the signer Disconnected, and a disconnect of a     *)
(* signer that is already Disconnected changes nothing, so that two    *)
(* disconnects in a row leave what one leaves.                         *)
(* ------------------------------------------------------------------ *)
C12_Step ==
    \A c \in Threads, s \in SharedSigners :
        Called(c, "disconnect", s)
            => /\ tres'[c].status = "returned"
               /\ Disconnected(s)'
               /\ Disconnected(s) => signers'[s] = signers[s]
               /\ disconnect(signers'[s]) = signers'[s]

C12_DisconnectIdempotent == [][C12_Step]_vars

\* Two disconnects one after the other, no call started between them.
C12_Witness ==
    \E c, d \in Threads :
        /\ tres[c].op = "disconnect" /\ tres[c].status = "returned"
        /\ tres[d].op = "disconnect" /\ tres[d].status = "returned"
        /\ tres[d].n = tres[c].n + 1
        /\ Disconnected("s1")

(* ------------------------------------------------------------------ *)
(* C13: signAllTransactions signs one transaction at a time, in input  *)
(* order, and stops at the first failure.  What was handed to          *)
(* signTransaction is always a prefix of the input, at most one        *)
(* transaction beyond what is signed; after a failure it ends with the *)
(* failing transaction; when nothing failed the result is the input.   *)
(* ------------------------------------------------------------------ *)
Prefix(xs, ys) == Len(xs) <= Len(ys) /\ xs = SubSeq(ys, 1, Len(xs))

C13_SequentialInOrder ==
    \A c \in Threads :
        /\ (threads[c].pc # "idle" /\ threads[c].op = "signAllTransactions")
              => /\ Prefix(threads[c].passed, threads[c].input)
                 /\ Prefix(threads[c].signed, threads[c].passed)
                 /\ Len(threads[c].passed) =
                        Len(threads[c].signed)
                          + (IF threads[c].pc = "delay" THEN 1 ELSE 0)
        /\ (tres[c].op = "signAllTransactions"
              /\ tres[c].status = "returned")
              => /\ tres[c].value = tres[c].input
                 /\ tres[c].passed = tres[c].input
        /\ Failed(c, "signAllTransactions")
              => /\ Prefix(tres[c].passed, tres[c].input)
                 /\ Prefix(tres[c].signed, tres[c].passed)
                 /\ Len(tres[c].passed) = Len(tres[c].signed) + 1

\* A list of two different transactions came back signed, in its order.
C13_Witness ==
    \E c \in Threads :
        /\ tres[c].op = "signAllTransactions"
        /\ tres[c].status = "returned"
        /\ tres[c].value = << "a", "b" >>
        /\ \A x \in TxIds : txSigs[x] # {}

\* A list whose first transaction failed: the second was never handed on.
C13_WitnessFailure ==
    \E c \in Threads :
        /\ Failed(c, "signAllTransactions")
        /\ tres[c].input = << "b", "a" >>
        /\ tres[c].passed = << "b" >>
        /\ txSigs["a"] = {}

(* ------------------------------------------------------------------ *)
(* C14: when signAllTransactions fails at the k-th transaction after   *)
(* it signed k-1 of them, what the caller is handed carries, with the  *)
(* error, the k-1 transactions signed so far.                          *)
(* ------------------------------------------------------------------ *)
C14_PartialResultsWithError ==
    \A c \in Threads :
        (Failed(c, "signAllTransactions") /\ tres[c].signed # << >>)
            => /\ "signed" \in DOMAIN tres[c].error
               /\ tres[c].error.signed = tres[c].signed

(* ------------------------------------------------------------------ *)
(* C15: no signer session is leaked by the HSM flow.  Once connect     *)
(* has succeeded in a run, whatever happens next (airdrop failure and  *)
(* return, blockhash failure, signing failure, submission failure,     *)
(* success), the run eventually ends with its signer Disconnected, and *)
(* a run that has ended never leaves its signer Connected.             *)
(* ------------------------------------------------------------------ *)
Ended(r) == runs[r].pc = "done"

C15_NoSessionLeaked ==
    \A r \in Runs :
        /\ Connected(SignerOf(r)) ~> (Ended(r) /\ Disconnected(SignerOf(r)))
        /\ [](Ended(r) => ~Connected(SignerOf(r)))

\* A run that returned on a failed airdrop, its session closed.
C15_Witness ==
    \E r \in Runs :
        /\ Ended(r)
        /\ runs[r].error = "airdrop"
        /\ Disconnected(SignerOf(r))

(* ------------------------------------------------------------------ *)
(* C16: a connect on a signer that is already Connected, with no       *)
(* disconnect since its last connect, does not succeed: it ends in an  *)
(* error and the signer keeps the session it had.                      *)
(* ------------------------------------------------------------------ *)
C16_Step ==
    \A c \in Threads, s \in SharedSigners :
        (Called(c, "connect", s) /\ Connected(s))
            => /\ tres'[c].status = "threw"
               /\ signers'[s] = signers[s]

C16_NoSecondConnect == [][C16_Step]_vars

(* ------------------------------------------------------------------ *)
(* C17: a successful connect returns the public identity of the        *)
(* session, and every signature made until the next disconnect is      *)
(* made with the key of exactly that identity.                         *)
(* ------------------------------------------------------------------ *)

\* The identity a Connected signer answers with when asked publicKey.
Identity(s) == publicKey(signers[s]).value

\* Every signature this step puts on a transaction is made by a suspended
\* signTransaction, with the key of the identity its signer shows.
SignsAsIdentity ==
    \A x \in TxIds :
        txSigs'[x] # txSigs[x]
            => \E c \in Threads :
                  /\ threads[c].pc = "delay"
                  /\ Connected(threads[c].s)
                  /\ txSigs'[x] = txSigs[x] \cup {Identity(threads[c].s)}

\* As claimed: the value connect returns is the identity.
C17_ReturnStep ==
    /\ \A c \in Threads, s \in SharedSigners :
          Called(c, "connect", s)
              => /\ tres'[c].status = "returned"
                 /\ tres'[c].value = Identity(s)'
    /\ SignsAsIdentity

C17_ConnectReturnsIdentity == [][C17_ReturnStep]_vars

\* As the code has it: connect returns nothing; the identity of the
\* session is what the getter publicKey answers from then on, the public
\* key of the key pair derived from the seed phrase of the signer.
C17_Step ==
    /\ \A c \in Threads, s \in SharedSigners :
          Called(c, "connect", s)
              => /\ tres'[c].status = "returned"
                 /\ tres'[c].value = Undefined
                 /\ Connected(s)'
                 /\ publicKey(signers'[s]).status = "returned"
                 /\ Identity(s)' = signers'[s].keypair.publicKey
    /\ SignsAsIdentity

C17_SignsAsPublishedIdentity == [][C17_Step]_vars

\* A transaction signed in a session, by the identity of the session.
C17_Witness ==
    \E c \in Threads, x \in TxIds :
        /\ tres[c].op = "signTransaction"
        /\ tres[c].status = "returned"
        /\ tres[c].value = x
        /\ Connected("s1")
        /\ txSigs[x] = {Identity("s1")}

(* ------------------------------------------------------------------ *)
(* C18: the steps of the flow happen in order.  The recent blockhash   *)
(* is on the transaction before signTransaction is called; the         *)
(* transaction is submitted only with the signature on it; it is never *)
(* submitted while signing is still going on or after signing failed.  *)
(* ------------------------------------------------------------------ *)
HasBlockhash(r) ==
    runs[r].transaction.built /\ runs[r].transaction.recentBlockhash # Null

HasSignature(r) ==
    runs[r].transaction.built /\ runs[r].transaction.signatures # {}

C18_StepsInOrder ==
    \A r \in Runs :
        /\ (runs[r].pc = "signing" \/ HasSignature(r)) => HasBlockhash(r)
        /\ runs[r].submitted => HasSignature(r)
        /\ runs[r].pc \in {"sign", "signing"} => ~runs[r].submitted
        /\ runs[r].error = "sign" => ~runs[r].submitted /\ ~HasSignature(r)

\* A run that submitted its transaction, blockhash and signature on it.
C18_Witness ==
    \E r \in Runs :
        /\ runs[r].submitted
        /\ HasBlockhash(r)
        /\ HasSignature(r)

\* A run whose signing failed and that ended without submitting.
C18_WitnessFailure ==
    \E r \in Runs :
        /\ Ended(r)
        /\ runs[r].error = "sign"
        /\ ~runs[r].submitted

(* ------------------------------------------------------------------ *)
(* C19: every failure of the flow is surfaced to its caller.  A run in *)
(* which signing or submission failed does not end as a normal         *)
(* completion: the promise of main is rejected, with an outcome that   *)
(* tells whether a signature had been produced.                        *)
(* ------------------------------------------------------------------ *)
C19_FailureSurfaced ==
    \A r \in Runs :
        (Ended(r) /\ runs[r].error \in {"sign", "send"})
            => runs[r].promise = "rejected"

(* ------------------------------------------------------------------ *)
(* C20: at most one signing operation is in flight per signer object,  *)
(* and the disconnect of a signer is never started while one of its    *)
(* signing operations is in flight.                                    *)
(* ------------------------------------------------------------------ *)

\* The signTransaction calls on signer s suspended in their delay.
InFlight(s) ==
    Cardinality({r \in Runs : SignerOf(r) = s /\ runs[r].pc = "signing"})
      + Cardinality({c \in Threads :
                        threads[c].pc = "delay" /\ threads[c].s = s})

\* This step is run r calling disconnect in its finally block.
Disconnects(r) == runs[r].pc = "finally" /\ runs'[r].pc = "done"

C20_Step ==
    /\ \A s \in Signers : InFlight(s) <= 1 /\ InFlight(s)' <= 1
    /\ \A r \in Runs : Disconnects(r) => InFlight(SignerOf(r)) = 0

C20_OneSignInFlight == [][C20_Step]_vars

\* One run disconnected while the other run's signing was in flight, on
\* the other run's own signer.
C20_Witness ==
    \E r, q \in Runs :
        /\ Ended(r)
        /\ runs[r].sent
        /\ runs[q].pc = "signing"
        /\ InFlight(SignerOf(q)) = 1
        /\ InFlight(SignerOf(r)) = 0

(* ================================================================== *)
(* Several signer objects                                             *)
(* ================================================================== *)

\* Call chains construct, connect, use and disconnect any of the signer
\* objects; no batches.
InstancesNext ==
    \/ \E s \in Signers : New(s)
    \/ \E c \in Threads, s \in Signers : Connect(c, s)
    \/ \E c \in Threads, s \in Signers : Disconnect(c, s)
    \/ \E c \in Threads, s \in Signers : SignTransaction(c, s)
    \/ \E c \in Threads : Resume(c)

InstancesSpec == Init /\ [][InstancesNext]_vars

(* ------------------------------------------------------------------ *)
(* C21: the key of the development signer is a deterministic function  *)
(* of its seed.  Two signer objects built with the same seed phrase    *)
(* show the same identity once connected, and a signer connected again *)
(* after a disconnect has the identity it had before: the signatures   *)
(* of its earlier sessions are signatures of its present identity.     *)
(* ------------------------------------------------------------------ *)
Constructed == {s \in Signers : signers[s] # NoSigner}

SameSeed(s, q) == signers[s].seedPhrase = signers[q].seedPhrase

C21_WitnessReconnect ==
    \E c, d \in Threads, x \in TxIds :
        /\ tres[c].op = "connect"
        /\ tres[d].op = "disconnect"
        /\ tres[c].n = tres[d].n + 1
        /\ tres[c].s = tres[d].s
        /\ Constructed = {tres[c].s}
        /\ txSigs[x] = {Identity(tres[c].s)}

(* ------------------------------------------------------------------ *)
(* C26: a signTransaction that passed its test of the key pair never   *)
(* reaches the signing step with a null key.  Whatever disconnect does *)
(* while the call is suspended in its delay, the call either signs     *)
(* with the connected key or fails with the not-connected error.       *)
(* ------------------------------------------------------------------ *)
C26_SignOrNotConnected ==
    \A c \in Threads :
        Failed(c, "signTransaction") => tres[c].error = NotConnected

(* ------------------------------------------------------------------ *)
(* C27: on a MockHSMSigner the key pair is present exactly when the    *)
(* public key is present, the getter publicKey throws exactly when the *)
(* signer is Disconnected, and signTransaction, whether it signs or    *)
(* fails, leaves the connection state as it was.                       *)
(* ------------------------------------------------------------------ *)
Consistent(sg) ==
    /\ (sg.keypair = Null) <=> (sg.publicKey = Null)
    /\ (publicKey(sg).status = "threw") <=> (sg.keypair = Null)
    /\ publicKey(sg).status = "threw"
          => publicKey(sg).error = "HSM not initialized. Call connect() first."

\* This step belongs to a signTransaction of chain c: its call or its end.
Signing(c) ==
    \/ \E s \in SharedSigners : Called(c, "signTransaction", s)
    \/ /\ threads[c].pc = "delay"
       /\ threads[c].op = "signTransaction"
       /\ threads'[c].pc = "idle"

C27_Step ==
    /\ \A s \in Constructed : Consistent(signers[s])
    /\ \A s \in Constructed' : Consistent(signers'[s])
    /\ \A c \in Threads : Signing(c) => signers' = signers

C27_SignerStateConsistent == [][C27_Step]_vars

\* Connect, a completed signTransaction, then disconnect.
C27_Witness ==
    \E c, d \in Threads :
        /\ tres[c].op = "signTransaction"
        /\ tres[c].status = "returned"
        /\ tres[d].op = "disconnect"
        /\ tres[d].n > tres[c].n
        /\ Disconnected("s1")
        /\ publicKey(signers["s1"]).status = "threw"

(* ------------------------------------------------------------------ *)
(* MemberRegistry: creation                                           *)
(* ------------------------------------------------------------------ *)

\* The member lists a registry is created from: any of the demo's key pairs,
\* main's three members with the masks main gives them.
MemberLists ==
    {[m \in ids |-> IF m \in DOMAIN members THEN members[m] ELSE Propose] :
        ids \in SUBSET Identities}

\* The thresholds tried, from below 1 to above every member count.
Thresholds == -1 .. (Cardinality(Identities) + 1)

\* A bad threshold is a ConfigurationError, reported as InvalidThreshold.
ConfigurationError(kind) == [type |-> "ConfigurationError", kind |-> kind]

\* A create that takes every threshold.
create_Unchecked(ms, th) ==
    [status |-> "created", registry |-> RegistryCreate(ms, th)]

\* create(members, threshold) -> Registry
create(ms, th) ==
    IF th < 1 \/ th > Cardinality(DOMAIN ms)
    THEN [status |-> "failed", error |-> ConfigurationError("InvalidThreshold")]
    ELSE [status |-> "created", registry |-> RegistryCreate(ms, th)]

\* multisig.create({members, threshold, ...}): the registry made is the
\* multisig account of the flow, with transactionIndex 0.
CreateRegistry ==
    \E ms \in MemberLists, th \in Thresholds :
        LET out == create(ms, th) IN
        /\ created' = [op |-> "create", members |-> ms, threshold |-> th,
                       status |-> out.status,
                       error |-> IF out.status = "failed"
                                 THEN out.error ELSE Null]
        /\ registry' = IF out.status = "created"
                       THEN out.registry ELSE registry
        /\ txIndex' = IF out.status = "created" THEN 0 ELSE txIndex
        /\ UNCHANGED << proposals, mainVars, callerVars, sawApproved,
                        createdSeq, hsmVars, counterVars, fundVars >>

RegistryNext == CreateRegistry

RegistrySpec == Init /\ [][RegistryNext]_vars

MemberCount(ms) == Cardinality(DOMAIN ms)

BadThreshold(c) ==
    c.threshold < 1 \/ c.threshold > MemberCount(c.members)

\* C22: every registry that exists has 1 <= threshold <= number of members;
\* a create with a threshold below 1 or above the member count fails with
\* ConfigurationError, and the step creates no registry: the registry there
\* was stays as it is.
C22_Step ==
    /\ registry'.exists =>
          /\ 1 <= registry'.threshold
          /\ registry'.threshold <= MemberCount(registry'.members)
    /\ created'.op = "create" /\ BadThreshold(created') =>
          /\ created'.status = "failed"
          /\ created'.error.type = "ConfigurationError"
          /\ registry' = registry
C22_ThresholdWithinMembers == [][C22_Step]_vars

\* A create with a threshold above the member count was refused while a
\* registry created before it exists; and one below 1.
C22_Witness ==
    /\ registry.exists
    /\ created.op = "create"
    /\ created.status = "failed"
    /\ created.threshold > MemberCount(created.members)
    /\ MemberCount(created.members) > 0

C22_WitnessBelow ==
    /\ created.op = "create"
    /\ created.status = "failed"
    /\ created.threshold < 1

(* ------------------------------------------------------------------ *)
(* Funding: the two demos under every SOLANA_ENV                      *)
(* ------------------------------------------------------------------ *)

\* SOLANA_ENV as the multisig demo finds it when main starts.
SolanaEnv(e) ==
    /\ mpc = "start"
    /\ menv' = e
    /\ UNCHANGED << multisigVars, hsmVars, createVars, counterVars,
                    airdrops >>

\* The multisig demo, with the votes of the other members, and a run of
\* the HSM transfer demo, each in any environment.
FundingNext ==
    \/ \E e \in Environments \cup {"testnet"} : SolanaEnv(e)
    \/ MainAirdrop
    \/ MainCreateMultisig
    \/ MainReadIndex
    \/ MainCreateProposal
    \/ MainApprove
    \/ MainGetProposal
    \/ MainExecuteSign
    \/ MainExecuteSubmit
    \/ MainVerify
    \/ CallerVote("c1")
    \/ HsmRun("r1")

FundingSpec == Init /\ [][FundingNext]_vars

Funded == {"localnet", "devnet"}

\* C28: a failed airdrop on localnet or devnet stops the flow with no value
\* moved: the multisig flow has ended with no multisig, no proposal and no
\* approval or execution submitted; the HSM flow has built, signed and
\* submitted nothing and ends with its signer disconnected. On mainnet-beta
\* neither flow requests an airdrop.
C28_AirdropFailureStops ==
    /\ airdrops["main"] # "none" => menv \in Funded
    /\ airdrops["main"] = "failed" =>
          /\ mpc = "done"
          /\ registry = NoRegistry
          /\ \A i \in Indices : proposals[i] = NoProposal
          /\ acts = {}
    /\ \A r \in Runs :
          /\ airdrops[r] # "none" => runs[r].environment \in Funded
          /\ airdrops[r] = "failed" =>
                /\ runs[r].pc \in {"finally", "done"}
                /\ runs[r].transaction = NoTransaction
                /\ ~runs[r].submitted
                /\ ~runs[r].sent
                /\ runs[r].pc = "done" => Disconnected(SignerOf(r))

\* Both flows have ended on a failed airdrop.
C28_Witness ==
    /\ airdrops["main"] = "failed"
    /\ \E r \in Runs : airdrops[r] = "failed" /\ runs[r].pc = "done"

\* Both flows ran to their end on mainnet-beta.
C28_WitnessMainnet ==
    /\ menv = "mainnet-beta"
    /\ mpc = "done"
    /\ MainExecuted
    /\ airdrops["main"] = "none"
    /\ \E r \in Runs :
          runs[r].environment = "mainnet-beta" /\ runs[r].sent

(* ------------------------------------------------------------------ *)
(* Counter program: u64 values                                        *)
(* ------------------------------------------------------------------ *)

\* A u64 is held as four limbs of 16 bits, least significant first, so that
\* the full width of the count is kept.
Base == 2^16
U64 == [1 .. 4 -> 0 .. (Base - 1)]
Zero == [i \in 1 .. 4 |-> 0]

\* a + n and a * m for a small n, m: the value modulo 2^64 and the carry
\* out of the top limb.
AddSmall(a, n) ==
    LET s1 == a[1] + n
        s2 == a[2] + (s1 \div Base)
        s3 == a[3] + (s2 \div Base)
        s4 == a[4] + (s3 \div Base)
    IN  [value |-> << s1 % Base, s2 % Base, s3 % Base, s4 % Base >>,
         carry |-> s4 \div Base]

MulSmall(a, m) ==
    LET p1 == a[1] * m
        p2 == a[2] * m + (p1 \div Base)
        p3 == a[3] * m + (p2 \div Base)
        p4 == a[4] * m + (p3 \div Base)
    IN  [value |-> << p1 % Base, p2 % Base, p3 % Base, p4 % Base >>,
         carry |-> p4 \div Base]

\* a div 10 and a mod 10, by long division from the top limb.
DivMod10(a) ==
    LET c4 == a[4]
        c3 == (c4 % 10) * Base + a[3]
        c2 == (c3 % 10) * Base + a[2]
        c1 == (c2 % 10) * Base + a[1]
    IN  [quotient |-> << c1 \div 10, c2 \div 10, c3 \div 10, c4 \div 10 >>,
         remainder |-> c1 % 10]

\* new anchor.BN(n) of a number or a decimal string, as its decimal digits.
RECURSIVE BN(_)
BN(digits) ==
    IF digits = << >>
    THEN Zero
    ELSE AddSmall(MulSmall(BN(SubSeq(digits, 1, Len(digits) - 1)), 10).value,
                  digits[Len(digits)]).value

\* bn.toString(): the decimal digits, "0" for zero.
RECURSIVE Digits(_)
Digits(a) ==
    IF a = Zero
    THEN << >>
    ELSE Append(Digits(DivMod10(a).quotient), DivMod10(a).remainder)

toString(a) == IF a = Zero THEN << 0 >> ELSE Digits(a)

None == [none |-> TRUE]

\* An addition that wraps around at 2^64.
wrapping_add(a, n) == AddSmall(a, n).value

\* u64::checked_add: None when the sum does not fit 64 bits.
checked_add(a, n) ==
    IF AddSmall(a, n).carry > 0 THEN None ELSE AddSmall(a, n).value

(* ------------------------------------------------------------------ *)
(* Counter program: instructions                                      *)
(* ------------------------------------------------------------------ *)

\* What an instruction leaves: the accounts, the error of a failed
\* transaction ("none" when it succeeded), and the value a view returns.
Landed(accounts, value) ==
    [error |-> "none", accounts |-> accounts, value |-> value]
Reverted(accounts, error) ==
    [error |-> error, accounts |-> accounts, value |-> Null]

\* initialize(initial_value): the counter account is created at the address
\* derived from the authority, which signs; an address in use is refused.
initialize(accounts, counter, authority, value) ==
    IF counter # CounterPda(authority)
    THEN Reverted(accounts, "ConstraintSeeds")
    ELSE IF accounts[counter] # NoCounter
    THEN Reverted(accounts, "already in use")
    ELSE Landed([accounts EXCEPT ![counter] =
                    [initialized |-> TRUE, count |-> value,
                     authority |-> authority]], Null)

\* An increment that adds one twice.
increment_Twice(accounts, counter, authority) ==
    IF accounts[counter] = NoCounter
    THEN Reverted(accounts, "AccountNotInitialized")
    ELSE IF accounts[counter].authority # authority
    THEN Reverted(accounts, "has_one")
    ELSE IF checked_add(accounts[counter].count, 2) = None
    THEN Reverted(accounts, "Overflow")
    ELSE Landed([accounts EXCEPT ![counter].count = checked_add(@, 2)], Null)

\* An increment that takes any signer for the authority.
increment_AnySigner(accounts, counter, authority) ==
    IF accounts[counter] = NoCounter
    THEN Reverted(accounts, "AccountNotInitialized")
    ELSE IF checked_add(accounts[counter].count, 1) = None
    THEN Reverted(accounts, "Overflow")
    ELSE Landed([accounts EXCEPT ![counter].count = checked_add(@, 1)], Null)

\* An increment that wraps around at u64::MAX.
increment_Wrapping(accounts, counter, authority) ==
    IF accounts[counter] = NoCounter
    THEN Reverted(accounts, "AccountNotInitialized")
    ELSE IF accounts[counter].authority # authority
    THEN Reverted(accounts, "has_one")
    ELSE Landed([accounts EXCEPT ![counter].count = wrapping_add(@, 1)], Null)

\* increment(): the signer must be the stored authority (has_one); the
\* count goes up by one with checked_add, an overflow is an error.
increment(accounts, counter, authority) ==
    IF accounts[counter] = NoCounter
    THEN Reverted(accounts, "AccountNotInitialized")
    ELSE IF accounts[counter].authority # authority
    THEN Reverted(accounts, "has_one")
    ELSE IF checked_add(accounts[counter].count, 1) = None
    THEN Reverted(accounts, "Overflow")
    ELSE Landed([accounts EXCEPT ![counter].count = checked_add(@, 1)], Null)

\* transfer_authority(new_authority): the signer must be the stored
\* authority; the account stays at its address.
transferAuthority(accounts, counter, authority, newAuthority) ==
    IF accounts[counter] = NoCounter
    THEN Reverted(accounts, "AccountNotInitialized")
    ELSE IF accounts[counter].authority # authority
    THEN Reverted(accounts, "has_one")
    ELSE Landed([accounts EXCEPT ![counter].authority = newAuthority], Null)

\* get_count(): a view, it returns the count.
getCount(accounts, counter) ==
    IF accounts[counter] = NoCounter
    THEN Reverted(accounts, "AccountNotInitialized")
    ELSE Landed(accounts, accounts[counter].count)

(* ------------------------------------------------------------------ *)
(* Counter tests: the instructions the client sends                   *)
(* ------------------------------------------------------------------ *)

\* The initial values of the tests: 0, 10, 42, 100 and u64::MAX - 1.
LargeNumber == << 1, 8, 4, 4, 6, 7, 4, 4, 0, 7, 3, 7, 0, 9, 5, 5, 1, 6, 1, 4 >>
InitialValues ==
    {BN(<< 0 >>), BN(<< 1, 0 >>), BN(<< 4, 2 >>), BN(<< 1, 0, 0 >>),
     BN(LargeNumber)}

\* .rpc() / .view(): the instruction is executed, its outcome is what the
\* awaited call returns or throws.
Rpc(op, counter, signer, arg, out) ==
    /\ txs < MaxTx
    /\ txs' = txs + 1
    /\ counters' = out.accounts
    /\ cres' = [op |-> op, counter |-> counter, signer |-> signer,
                arg |-> arg, error |-> out.error, value |-> out.value]
    /\ UNCHANGED << multisigVars, hsmVars, createVars, fundVars >>

\* program.methods.initialize(initialValue).accounts({counter: counterPda,
\* authority}).signers([authority]).rpc()
Initialize(key, v) ==
    LET out == initialize(counters, CounterPda(key), key, v)
    IN  /\ Rpc("initialize", CounterPda(key), key, v, out)
        /\ hist' = IF out.error = "none"
                   THEN [hist EXCEPT ![CounterPda(key)] =
                            [initialized |-> TRUE, value |-> v, n |-> 0]]
                   ELSE hist

\* program.methods.increment().accounts({counter, authority})
\* .signers([authority]).rpc()
Increment(counter, key) ==
    LET out == increment(counters, counter, key)
    IN  /\ Rpc("increment", counter, key, Null, out)
        /\ hist' = IF out.error = "none"
                   THEN [hist EXCEPT ![counter].n = @ + 1]
                   ELSE hist

\* program.methods.transferAuthority(newAuthority).accounts({counter,
\* authority}).signers([authority]).rpc()
TransferAuthority(counter, key, newAuthority) ==
    LET out == transferAuthority(counters, counter, key, newAuthority)
    IN  /\ Rpc("transferAuthority", counter, key, newAuthority, out)
        /\ UNCHANGED hist

\* program.methods.getCount().accounts({counter}).view()
GetCount(counter) ==
    LET out == getCount(counters, counter)
    IN  /\ Rpc("getCount", counter, Null, Null, out)
        /\ UNCHANGED hist

CounterNext ==
    \/ \E k \in Keys, v \in InitialValues : Initialize(k, v)
    \/ \E a \in Addresses, k \in Keys : Increment(a, k)
    \/ \E a \in Addresses, k, n \in Keys : TransferAuthority(a, k, n)
    \/ \E a \in Addresses : GetCount(a)

CounterSpec == Init /\ [][CounterNext]_vars

(* ------------------------------------------------------------------ *)
(* Counter: properties                                                *)
(* ------------------------------------------------------------------ *)

\* The step is a call of instruction op that the client got an answer to.
Answered(op) == txs' # txs /\ cres'.op = op

Succeeded == cres'.error = "none"

\* The account the answered instruction named, before and after it.
Before == counters[cres'.counter]
After == counters'[cres'.counter]

\* b = a + 1, limb by limb: the limbs below some limb go from all ones to
\* zero, that limb goes up by one, the limbs above it stay.
IsSucc(a, b) ==
    \E i \in 1 .. 4 :
        /\ \A j \in 1 .. (i - 1) : a[j] = Base - 1 /\ b[j] = 0
        /\ b[i] = a[i] + 1
        /\ \A j \in (i + 1) .. 4 : b[j] = a[j]

\* a < b, compared from the top limb.
Less(a, b) ==
    \E i \in 1 .. 4 :
        /\ a[i] < b[i]
        /\ \A j \in (i + 1) .. 4 : a[j] = b[j]

U64Max == [i \in 1 .. 4 |-> Base - 1]
U64MaxDigits ==
    << 1, 8, 4, 4, 6, 7, 4, 4, 0, 7, 3, 7, 0, 9, 5, 5, 1, 6, 1, 5 >>

\* C23: initialize(v) by an authority creates a counter with count v, also
\* for v = 0, and that authority; each successful increment raises the count
\* by exactly one, so that the count is v plus the number of successful
\* increments; getCount returns the current count and changes nothing.
C23_Step ==
    /\ Answered("initialize") /\ Succeeded =>
          /\ Before = NoCounter
          /\ After = [initialized |-> TRUE, count |-> cres'.arg,
                      authority |-> cres'.signer]
          /\ cres'.counter = CounterPda(cres'.signer)
    /\ Answered("increment") /\ Succeeded =>
          /\ IsSucc(Before.count, After.count)
          /\ counters' = [counters EXCEPT
                             ![cres'.counter].count = After.count]
    /\ Answered("getCount") /\ Succeeded =>
          /\ cres'.value = Before.count
          /\ counters' = counters
    /\ \A a \in Addresses :
          counters'[a] # NoCounter =>
              /\ hist'[a] # NoHistory
              /\ AddSmall(hist'[a].value, hist'[a].n).carry = 0
              /\ counters'[a].count =
                     AddSmall(hist'[a].value, hist'[a].n).value
C23_WitnessZero ==
    \E a \in Addresses :
        /\ hist[a] # NoHistory
        /\ toString(hist[a].value) = << 0 >>
        /\ hist[a].n = 3
        /\ toString(counters[a].count) = << 3 >>

\* C24: only the current authority of a counter can increment it: an
\* increment signed by another key fails and leaves the count as it was,
\* one signed by the authority succeeds unless the count is at its maximum.
\* A transferAuthority(new) by the current authority succeeds and stores
\* new as the authority, so that from then on new can increment and the old
\* authority cannot.
C24_Step ==
    /\ Answered("increment") /\ Before # NoCounter =>
          /\ cres'.signer # Before.authority =>
                ~Succeeded /\ counters' = counters
          /\ cres'.signer = Before.authority /\ Before.count # U64Max =>
                Succeeded /\ After.authority = Before.authority
    /\ Answered("transferAuthority") /\ Before # NoCounter
          /\ cres'.signer = Before.authority =>
          /\ Succeeded
          /\ After = [Before EXCEPT !.authority = cres'.arg]
C25_Step ==
    /\ \A a \in Addresses :
          counters[a] # NoCounter =>
              /\ counters'[a] # NoCounter
              /\ ~Less(counters'[a].count, counters[a].count)
    /\ Answered("increment") /\ Before # NoCounter
          /\ cres'.signer = Before.authority =>
          /\ toString(Before.count) = LargeNumber =>
                /\ Succeeded
                /\ After.count = U64Max
                /\ toString(After.count) = U64MaxDigits
          /\ Before.count = U64Max =>
                /\ cres'.error = "Overflow"
                /\ counters' = counters
====
